---- MODULE Spec2Model ----
(***************************************************************************)
(* Model of pkg/query-service/app/preferences/model.go: the preference     *)
(* registry loaded by InitDB, the validator (IsValidValue), the read-time  *)
(* sanitizer (SanitizeValue) and the six org/user get, update and list     *)
(* operations over the org_preference and user_preference tables.          *)
(*                                                                         *)
(* last is the request served last with what it returned; orgAck is a     *)
(* history variable: the value the last successful UpdateOrgPreference of  *)
(* each (preference_id, org_id) acknowledged, NilV if there was none.      *)
(*                                                                         *)
(* A Go interface{} value is a record [t, n, f, s]: t is the dynamic type, *)
(* n the integer part (or 1/0 for a bool), f the tenths of a float64, s    *)
(* the text of a string.  Go's == on interface{} values compares dynamic   *)
(* type and value, which is record equality here.                          *)
(***************************************************************************)
EXTENDS Integers, Sequences, FiniteSets, TLC

VARIABLES preferences, preferenceMap, loaded, orgTable, userTable, ops, last, orgAck

vars == <<preferences, preferenceMap, loaded, orgTable, userTable, ops, last, orgAck>>

----------------------------------------------------------------------------
(* Values *)

IntV(n) == [t |-> "int64", n |-> n, f |-> 0, s |-> ""]

FloatV(n, f) == [t |-> "float64", n |-> n, f |-> f, s |-> ""]

StrV(s) == [t |-> "string", n |-> 0, f |-> 0, s |-> s]

BoolV(b) == [t |-> "bool", n |-> (IF b THEN 1 ELSE 0), f |-> 0, s |-> ""]

\* the nil interface{} (the zero PreferenceKV.PreferenceValue)
NilV == [t |-> "nil", n |-> 0, f |-> 0, s |-> ""]

\* sql.ErrNoRows: no row under the primary key
NoRow == [t |-> "norow", n |-> 0, f |-> 0, s |-> ""]

\* JSON values of preference.json, before json.Unmarshal
JNum(n, f) == [t |-> "jnumber", n |-> n, f |-> f, s |-> ""]

JStr(s) == [t |-> "jstring", n |-> 0, f |-> 0, s |-> s]

JBool(b) == [t |-> "jbool", n |-> (IF b THEN 1 ELSE 0), f |-> 0, s |-> ""]

PreferenceValueTypeInteger == "integer"

PreferenceValueTypeFloat == "float"

PreferenceValueTypeString == "string"

PreferenceValueTypeBoolean == "boolean"

OrgAllowedScope == "org"

UserAllowedScope == "user"

\* model.ApiError: Typ and the kind of message of Err
NoError == [Typ |-> "", Err |-> ""]

ApiError(typ, msg) == [Typ |-> typ, Err |-> msg]

ErrorBadData == "bad_data"

ErrorForbidden == "forbidden"

ErrorExec == "exec"

----------------------------------------------------------------------------
(* Bounded inputs *)

Orgs == {"o1", "o2"}

Users == {"u1", "u2"}

\* number of requests served after InitDB
MaxOps == 2

\* candidate values a caller submits
CandidateValues ==
    {IntV(0), IntV(1), IntV(2), IntV(3),
     FloatV(1, 0), FloatV(1, 5), FloatV(3, 0),
     StrV("1"), StrV("a"), BoolV(TRUE), BoolV(FALSE)}

NilSlice == [isNil |-> TRUE, elems |-> <<>>]

Slice(q) == [isNil |-> FALSE, elems |-> q]

Def(key, name, vt, dflt, allowed, discrete, min, max, scopes) ==
    [Key |-> key, Name |-> name, Description |-> name, ValueType |-> vt,
     DefaultValue |-> dflt, AllowedValues |-> allowed,
     IsDescreteValues |-> discrete, Range |-> [Min |-> min, Max |-> max],
     AllowedScopes |-> scopes]

\* a preference.json whose keys are all different; PAGE_SIZE is discrete and has a
\* range, WELCOME_DONE is discrete with no allowedValues member (a nil slice), LOCALE
\* is discrete with "allowedValues": [] (an empty slice that is not nil)
GoodFile ==
    << Def("MAX_ALERTS", "max alerts", PreferenceValueTypeInteger, JNum(1, 0),
           NilSlice, FALSE, 1, 2, <<"org", "user">>),
       Def("PAGE_SIZE", "page size", PreferenceValueTypeInteger, JNum(1, 0),
           Slice(<<JNum(1, 0), JNum(3, 0)>>), TRUE, 1, 2, <<"org">>),
       Def("DARK_MODE", "dark mode", PreferenceValueTypeBoolean, JBool(TRUE),
           NilSlice, FALSE, 0, 0, <<"org", "user">>),
       Def("WELCOME_DONE", "welcome done", PreferenceValueTypeBoolean, JBool(FALSE),
           NilSlice, TRUE, 0, 0, <<"user">>),
       Def("THEME", "theme", PreferenceValueTypeString, JStr("a"),
           Slice(<<JStr("a")>>), TRUE, 0, 0, <<"user", "org">>),
       Def("RATIO", "ratio", PreferenceValueTypeFloat, JNum(1, 5),
           Slice(<<JNum(1, 5)>>), TRUE, 0, 0, <<"user">>),
       Def("LOCALE", "locale", PreferenceValueTypeString, JStr("a"),
           Slice(<<>>), TRUE, 0, 0, <<"org">>) >>

\* a preference.json in which the third definition repeats the key of the first
DupFile ==
    << Def("DARK_MODE", "dark mode", PreferenceValueTypeBoolean, JBool(TRUE),
           NilSlice, FALSE, 0, 0, <<"org", "user">>),
       Def("WELCOME_DONE", "welcome done", PreferenceValueTypeBoolean, JBool(FALSE),
           NilSlice, FALSE, 0, 0, <<"user">>),
       Def("DARK_MODE", "dark mode again", PreferenceValueTypeBoolean, JBool(FALSE),
           NilSlice, FALSE, 0, 0, <<"org">>) >>

DefinitionFiles == {GoodFile, DupFile}

\* preference_id values of requests and rows: the keys of the files and one no file has
PreferenceIds ==
    {"MAX_ALERTS", "PAGE_SIZE", "DARK_MODE", "WELCOME_DONE", "THEME", "RATIO", "LOCALE",
     "OLD_KEY"}

----------------------------------------------------------------------------
(* Pure functions of model.go *)

\* encoding/json into interface{}: a number is a float64, a string a string, a bool a bool
UnmarshalValue(j) ==
    CASE j.t = "jnumber" -> FloatV(j.n, j.f)
      [] j.t = "jstring" -> StrV(j.s)
      [] j.t = "jbool" -> BoolV(j.n = 1)
      [] OTHER -> NilV

UnmarshalSlice(a) ==
    IF a.isNil THEN a
    ELSE [isNil |-> FALSE, elems |-> [i \in 1..Len(a.elems) |-> UnmarshalValue(a.elems[i])]]

Unmarshal(file) ==
    [i \in 1..Len(file) |->
        [file[i] EXCEPT !.DefaultValue = UnmarshalValue(@),
                        !.AllowedValues = UnmarshalSlice(@)]]

ErrorValueTypeMismatch(p) == ApiError(ErrorBadData, "not of expected type")

checkIfInAllowedValues(preferenceValue, preference) ==
    \E i \in 1..Len(preference.AllowedValues.elems) :
        preference.AllowedValues.elems[i] = preferenceValue

\* TypeAndRangeError with the bounds of the range excluded
TypeAndRangeError_ExclusiveRange(p, preferenceValue) ==
    CASE p.ValueType = PreferenceValueTypeInteger ->
            IF preferenceValue.t # "int64"
               /\ (preferenceValue.t # "float64" \/ preferenceValue.f # 0)
            THEN ErrorValueTypeMismatch(p)
            ELSE LET val == preferenceValue.n
                 IN  IF ~p.IsDescreteValues /\ (val <= p.Range.Min \/ val >= p.Range.Max)
                     THEN ApiError(ErrorBadData, "not in the range specified")
                     ELSE NoError
      [] p.ValueType = PreferenceValueTypeString ->
            IF preferenceValue.t # "string" THEN ErrorValueTypeMismatch(p) ELSE NoError
      [] p.ValueType = PreferenceValueTypeFloat ->
            IF preferenceValue.t # "float64" THEN ErrorValueTypeMismatch(p) ELSE NoError
      [] p.ValueType = PreferenceValueTypeBoolean ->
            IF preferenceValue.t # "bool" THEN ErrorValueTypeMismatch(p) ELSE NoError
      [] OTHER -> NoError

\* TypeAndRangeError taking any float64 for an integer, truncated
TypeAndRangeError_AnyFloat(p, preferenceValue) ==
    CASE p.ValueType = PreferenceValueTypeInteger ->
            IF preferenceValue.t # "int64" /\ preferenceValue.t # "float64"
            THEN ErrorValueTypeMismatch(p)
            ELSE LET val == preferenceValue.n
                 IN  IF ~p.IsDescreteValues /\ (val < p.Range.Min \/ val > p.Range.Max)
                     THEN ApiError(ErrorBadData, "not in the range specified")
                     ELSE NoError
      [] p.ValueType = PreferenceValueTypeString ->
            IF preferenceValue.t # "string" THEN ErrorValueTypeMismatch(p) ELSE NoError
      [] p.ValueType = PreferenceValueTypeFloat ->
            IF preferenceValue.t # "float64" THEN ErrorValueTypeMismatch(p) ELSE NoError
      [] p.ValueType = PreferenceValueTypeBoolean ->
            IF preferenceValue.t # "bool" THEN ErrorValueTypeMismatch(p) ELSE NoError
      [] OTHER -> NoError

\* the switch of IsValidValue: the type check and, for an integer, the range check
TypeAndRangeError(p, preferenceValue) ==
    CASE p.ValueType = PreferenceValueTypeInteger ->
            IF preferenceValue.t # "int64"
               /\ (preferenceValue.t # "float64" \/ preferenceValue.f # 0)
            THEN ErrorValueTypeMismatch(p)
            ELSE LET val == preferenceValue.n
                 IN  IF ~p.IsDescreteValues /\ (val < p.Range.Min \/ val > p.Range.Max)
                     THEN ApiError(ErrorBadData, "not in the range specified")
                     ELSE NoError
      [] p.ValueType = PreferenceValueTypeString ->
            IF preferenceValue.t # "string" THEN ErrorValueTypeMismatch(p) ELSE NoError
      [] p.ValueType = PreferenceValueTypeFloat ->
            IF preferenceValue.t # "float64" THEN ErrorValueTypeMismatch(p) ELSE NoError
      [] p.ValueType = PreferenceValueTypeBoolean ->
            IF preferenceValue.t # "bool" THEN ErrorValueTypeMismatch(p) ELSE NoError
      [] OTHER -> NoError

IsValidValue(p, preferenceValue) ==
    LET e == TypeAndRangeError(p, preferenceValue)
    IN  IF e # NoError THEN e
        ELSE IF p.IsDescreteValues /\ ~p.AllowedValues.isNil
                /\ ~checkIfInAllowedValues(preferenceValue, p)
             THEN ApiError(ErrorBadData, "not in the list of allowedValues")
             ELSE NoError

IsEnabledForScope(p, scope) ==
    \E i \in 1..Len(p.AllowedScopes) : p.AllowedScopes[i] = scope

SanitizeValue(p, preferenceValue) ==
    IF p.ValueType = PreferenceValueTypeBoolean
    THEN IF preferenceValue = StrV("1") THEN BoolV(TRUE) ELSE BoolV(FALSE)
    ELSE preferenceValue

----------------------------------------------------------------------------
(* The store: tables org_preference and user_preference *)

\* what a row of column preference_value TEXT holds for a value written to it:
\* a boolean is kept in textual form, "1" for true
StoredForm(v) ==
    IF v.t = "bool" THEN StrV(IF v.n = 1 THEN "1" ELSE "0") ELSE v

EmptyOrgTable == [r \in PreferenceIds \X Orgs |-> NoRow]

EmptyUserTable == [r \in PreferenceIds \X Users |-> NoRow]

\* rows an earlier run of the service, under an earlier preference.json, left behind
LegacyOrgTable ==
    [r \in PreferenceIds \X Orgs |->
        CASE r = <<"WELCOME_DONE", "o1">> -> StrV("1")
          [] r = <<"DARK_MODE", "o1">> -> StrV("0")
          [] r = <<"OLD_KEY", "o1">> -> StrV("a")
          [] OTHER -> NoRow]

LegacyUserTable ==
    [r \in PreferenceIds \X Users |->
        CASE r = <<"WELCOME_DONE", "u1">> -> StrV("1")
          [] r = <<"PAGE_SIZE", "u1">> -> FloatV(3, 0)
          [] r = <<"DARK_MODE", "u2">> -> StrV("a")
          [] r = <<"OLD_KEY", "u2">> -> StrV("a")
          [] OTHER -> NoRow]

NoLast ==
    [op |-> "none", key |-> "", org |-> "", user |-> "", arg |-> NilV,
     dbErr |-> "none", err |-> NoError, val |-> NilV, rows |-> <<>>]

Init ==
    /\ preferences = <<>>
    /\ preferenceMap = <<>>
    /\ loaded = "none"
    /\ \/ orgTable = EmptyOrgTable /\ userTable = EmptyUserTable
       \/ orgTable = LegacyOrgTable /\ userTable = LegacyUserTable
    /\ ops = 0
    /\ last = NoLast
    /\ orgAck = [r \in PreferenceIds \X Orgs |-> NilV]

----------------------------------------------------------------------------
(* InitDB *)

\* FirstDuplicate comparing each definition with the one just before it only
FirstDuplicate_Adjacent(defs) ==
    LET dups == {i \in 2..Len(defs) : defs[i - 1].Key = defs[i].Key}
    IN  IF dups = {} THEN Len(defs) + 1
        ELSE CHOOSE i \in dups : \A k \in dups : i <= k

\* index of the first definition whose key an earlier one has; Len + 1 if none
FirstDuplicate(defs) ==
    LET dups == {i \in 1..Len(defs) : \E j \in 1..(i - 1) : defs[j].Key = defs[i].Key}
    IN  IF dups = {} THEN Len(defs) + 1
        ELSE CHOOSE i \in dups : \A k \in dups : i <= k

\* the map the loop has built when it returns: the definitions before the first duplicate
BuildPreferenceMap(defs) ==
    LET d == FirstDuplicate(defs)
        keys == {defs[i].Key : i \in 1..(d - 1)}
    IN  [k \in keys |-> defs[CHOOSE i \in 1..(d - 1) : defs[i].Key = k]]

InitDB(file, fileErr) ==
    /\ loaded = "none"
    /\ IF fileErr
       THEN /\ loaded' = "error in reading preferences from file"
            /\ UNCHANGED <<preferences, preferenceMap>>
       ELSE /\ preferences' = Unmarshal(file)
            /\ preferenceMap' = BuildPreferenceMap(Unmarshal(file))
            /\ loaded' = IF FirstDuplicate(Unmarshal(file)) <= Len(file)
                         THEN "duplicate preference key"
                         ELSE "ok"
    /\ last' = [NoLast EXCEPT !.op = "InitDB"]
    /\ UNCHANGED <<orgTable, userTable, ops, orgAck>>

----------------------------------------------------------------------------
(* org preference functions *)

NoSuchPreference == ApiError(ErrorBadData, "no such preferenceId exists")

NotEnabledAtOrg == ApiError(ErrorForbidden, "preference is not enabled at org scope")

NotEnabledAtUser == ApiError(ErrorForbidden, "preference is not enabled at user scope")

KV(err, val) == [err |-> err, val |-> val]

\* GetOrgPreferenceKV with a query that leaves org_id out of its WHERE clause
GetOrgPreferenceKV_AnyOrg(preferenceId, orgId, dbErr) ==
    IF preferenceId \notin DOMAIN preferenceMap THEN KV(NoSuchPreference, NilV)
    ELSE LET preference == preferenceMap[preferenceId]
             row == orgTable[<<preferenceId, "o1">>]
         IN  IF ~IsEnabledForScope(preference, OrgAllowedScope)
             THEN KV(NotEnabledAtOrg, NilV)
             ELSE IF dbErr = "org"
             THEN KV(ApiError(ErrorExec, "error in fetching the org preference"), NilV)
             ELSE IF row = NoRow THEN KV(NoError, preference.DefaultValue)
             ELSE KV(NoError, SanitizeValue(preference, row))

\* the (*PreferenceKV, *ApiError) GetOrgPreference returns; dbErr: db.Get fails
GetOrgPreferenceKV(preferenceId, orgId, dbErr) ==
    IF preferenceId \notin DOMAIN preferenceMap THEN KV(NoSuchPreference, NilV)
    ELSE LET preference == preferenceMap[preferenceId]
             row == orgTable[<<preferenceId, orgId>>]
         IN  IF ~IsEnabledForScope(preference, OrgAllowedScope)
             THEN KV(NotEnabledAtOrg, NilV)
             ELSE IF dbErr = "org"
             THEN KV(ApiError(ErrorExec, "error in fetching the org preference"), NilV)
             ELSE IF row = NoRow THEN KV(NoError, preference.DefaultValue)
             ELSE KV(NoError, SanitizeValue(preference, row))

GetOrgPreference(preferenceId, orgId) ==
    /\ loaded # "none"
    /\ ops < MaxOps
    /\ \E dbErr \in {"none", "org"} :
          LET r == GetOrgPreferenceKV(preferenceId, orgId, dbErr)
          IN  last' = [NoLast EXCEPT !.op = "GetOrgPreference", !.key = preferenceId,
                         !.org = orgId, !.err = r.err, !.val = r.val,
                         !.dbErr = IF r.err.Typ = ErrorExec THEN dbErr ELSE "none"]
    /\ ops' = ops + 1
    /\ UNCHANGED <<preferences, preferenceMap, loaded, orgTable, userTable, orgAck>>

\* UpdateOrgPreferenceErr without the call of IsValidValue
UpdateOrgPreferenceErr_NoValidation(preferenceId, preferenceValue) ==
    IF preferenceId \notin DOMAIN preferenceMap THEN NoSuchPreference
    ELSE LET preference == preferenceMap[preferenceId]
         IN  IF ~IsEnabledForScope(preference, OrgAllowedScope) THEN NotEnabledAtOrg
             ELSE NoError

\* the error UpdateOrgPreference returns before it reaches db.Exec
UpdateOrgPreferenceErr(preferenceId, preferenceValue) ==
    IF preferenceId \notin DOMAIN preferenceMap THEN NoSuchPreference
    ELSE LET preference == preferenceMap[preferenceId]
         IN  IF ~IsEnabledForScope(preference, OrgAllowedScope) THEN NotEnabledAtOrg
             ELSE IsValidValue(preference, preferenceValue)

\* dbErr: db.Exec fails, and then no row is written
UpdateOrgPreference(preferenceId, preferenceValue, orgId) ==
    /\ loaded # "none"
    /\ ops < MaxOps
    /\ LET e == UpdateOrgPreferenceErr(preferenceId, preferenceValue)
           req == [NoLast EXCEPT !.op = "UpdateOrgPreference", !.key = preferenceId,
                                 !.org = orgId, !.arg = preferenceValue]
       IN  IF e # NoError
           THEN /\ last' = [req EXCEPT !.err = e]
                /\ UNCHANGED <<orgTable, orgAck>>
           ELSE \/ /\ orgTable' = [orgTable EXCEPT ![<<preferenceId, orgId>>] =
                                       StoredForm(preferenceValue)]
                   /\ last' = [req EXCEPT !.val = preferenceValue]
                   /\ orgAck' = [orgAck EXCEPT ![<<preferenceId, orgId>>] = preferenceValue]
                \/ /\ last' = [req EXCEPT !.dbErr = "org",
                        !.err = ApiError(ErrorExec, "error in setting the preference value")]
                   /\ UNCHANGED <<orgTable, orgAck>>
    /\ ops' = ops + 1
    /\ UNCHANGED <<preferences, preferenceMap, loaded, userTable>>

\* the AllPreferences row of a definition, with its value
PreferenceWithValue(preference, value) ==
    [Key |-> preference.Key, Name |-> preference.Name,
     Description |-> preference.Description, ValueType |-> preference.ValueType,
     DefaultValue |-> preference.DefaultValue, Value |-> value,
     IsDescreteValues |-> preference.IsDescreteValues,
     AllowedValues |-> preference.AllowedValues, Range |-> preference.Range,
     AllowedScopes |-> preference.AllowedScopes]

\* the value GetAllOrgPreferences gives a definition enabled at org scope
OrgListValue(preference, orgId) ==
    LET row == orgTable[<<preference.Key, orgId>>]
    IN  SanitizeValue(preference, IF row # NoRow THEN row ELSE preference.DefaultValue)

\* GetAllOrgPreferencesRows appending a row outside the isEnabledForOrgScope test
GetAllOrgPreferencesRows_NoFilter(orgId) ==
    [i \in 1..Len(preferences) |->
        PreferenceWithValue(preferences[i], OrgListValue(preferences[i], orgId))]

\* the rows GetAllOrgPreferences returns when db.Select succeeds
GetAllOrgPreferencesRows(orgId) ==
    LET EnabledForOrg(preference) == IsEnabledForScope(preference, OrgAllowedScope)
        enabled == SelectSeq(preferences, EnabledForOrg)
    IN  [i \in 1..Len(enabled) |->
            PreferenceWithValue(enabled[i], OrgListValue(enabled[i], orgId))]

GetAllOrgPreferences(orgId) ==
    /\ loaded # "none"
    /\ ops < MaxOps
    /\ \E dbErr \in {"none", "org"} :
       last' = IF dbErr = "org"
               THEN [NoLast EXCEPT !.op = "GetAllOrgPreferences", !.org = orgId,
                        !.dbErr = dbErr,
                        !.err = ApiError(ErrorExec, "error in getting all org preference values")]
               ELSE [NoLast EXCEPT !.op = "GetAllOrgPreferences", !.org = orgId,
                        !.rows = GetAllOrgPreferencesRows(orgId)]
    /\ ops' = ops + 1
    /\ UNCHANGED <<preferences, preferenceMap, loaded, orgTable, userTable, orgAck>>

----------------------------------------------------------------------------
(* user preference functions *)

\* which query fails in the store, if any
DbErrs == {"none", "org", "user"}

\* GetUserPreferenceKV with the two lookups in the other order: the org row wins
GetUserPreferenceKV_OrgWins(preferenceId, orgId, userId, dbErr) ==
    IF preferenceId \notin DOMAIN preferenceMap THEN KV(NoSuchPreference, NilV)
    ELSE LET preference == preferenceMap[preferenceId]
             isPreferenceEnabledAtUserScope == IsEnabledForScope(preference, UserAllowedScope)
             isPreferenceEnabledAtOrgScope == IsEnabledForScope(preference, OrgAllowedScope)
             orgRow == orgTable[<<preferenceId, orgId>>]
             userRow == userTable[<<preferenceId, userId>>]
             afterUser == IF userRow # NoRow THEN userRow ELSE preference.DefaultValue
             afterOrg == IF isPreferenceEnabledAtOrgScope /\ orgRow # NoRow
                         THEN orgRow ELSE afterUser
         IN  IF ~isPreferenceEnabledAtUserScope THEN KV(NotEnabledAtUser, NilV)
             ELSE IF isPreferenceEnabledAtOrgScope /\ dbErr = "org"
             THEN KV(ApiError(ErrorExec, "error in getting org preference values"), NilV)
             ELSE IF dbErr = "user"
             THEN KV(ApiError(ErrorExec, "error in getting user preference values"), NilV)
             ELSE KV(NoError, SanitizeValue(preference, afterOrg))

\* the (*PreferenceKV, *ApiError) GetUserPreference returns; dbErr: which db.Get fails
GetUserPreferenceKV(preferenceId, orgId, userId, dbErr) ==
    IF preferenceId \notin DOMAIN preferenceMap THEN KV(NoSuchPreference, NilV)
    ELSE LET preference == preferenceMap[preferenceId]
             isPreferenceEnabledAtUserScope == IsEnabledForScope(preference, UserAllowedScope)
             isPreferenceEnabledAtOrgScope == IsEnabledForScope(preference, OrgAllowedScope)
             orgRow == orgTable[<<preferenceId, orgId>>]
             userRow == userTable[<<preferenceId, userId>>]
             afterOrg == IF isPreferenceEnabledAtOrgScope /\ orgRow # NoRow
                         THEN orgRow ELSE preference.DefaultValue
             afterUser == IF userRow # NoRow THEN userRow ELSE afterOrg
         IN  IF ~isPreferenceEnabledAtUserScope THEN KV(NotEnabledAtUser, NilV)
             ELSE IF isPreferenceEnabledAtOrgScope /\ dbErr = "org"
             THEN KV(ApiError(ErrorExec, "error in getting org preference values"), NilV)
             ELSE IF dbErr = "user"
             THEN KV(ApiError(ErrorExec, "error in getting user preference values"), NilV)
             ELSE KV(NoError, SanitizeValue(preference, afterUser))

GetUserPreference(preferenceId, orgId, userId) ==
    /\ loaded # "none"
    /\ ops < MaxOps
    /\ \E dbErr \in DbErrs :
          LET r == GetUserPreferenceKV(preferenceId, orgId, userId, dbErr)
          IN  last' = [NoLast EXCEPT !.op = "GetUserPreference", !.key = preferenceId,
                         !.org = orgId, !.user = userId, !.err = r.err, !.val = r.val,
                         !.dbErr = IF r.err.Typ = ErrorExec THEN dbErr ELSE "none"]
    /\ ops' = ops + 1
    /\ UNCHANGED <<preferences, preferenceMap, loaded, orgTable, userTable, orgAck>>

\* UpdateUserPreferenceErr testing the org scope, as UpdateOrgPreference does
UpdateUserPreferenceErr_OrgScope(preferenceId, preferenceValue) ==
    IF preferenceId \notin DOMAIN preferenceMap THEN NoSuchPreference
    ELSE LET preference == preferenceMap[preferenceId]
         IN  IF ~IsEnabledForScope(preference, OrgAllowedScope) THEN NotEnabledAtUser
             ELSE IsValidValue(preference, preferenceValue)

\* the error UpdateUserPreference returns before it reaches db.Exec
UpdateUserPreferenceErr(preferenceId, preferenceValue) ==
    IF preferenceId \notin DOMAIN preferenceMap THEN NoSuchPreference
    ELSE LET preference == preferenceMap[preferenceId]
         IN  IF ~IsEnabledForScope(preference, UserAllowedScope) THEN NotEnabledAtUser
             ELSE IsValidValue(preference, preferenceValue)

\* UpdateUserPreference with an upsert whose UPDATE has no user_id in its WHERE
\* clause: every row of the preference is overwritten
UpdateUserPreference_AllUsers(preferenceId, preferenceValue, userId) ==
    /\ loaded # "none"
    /\ ops < MaxOps
    /\ LET e == UpdateUserPreferenceErr(preferenceId, preferenceValue)
           req == [NoLast EXCEPT !.op = "UpdateUserPreference", !.key = preferenceId,
                                 !.user = userId, !.arg = preferenceValue]
       IN  IF e # NoError
           THEN /\ last' = [req EXCEPT !.err = e]
                /\ UNCHANGED userTable
           ELSE \/ /\ userTable' =
                        [r \in DOMAIN userTable |->
                            IF r[1] = preferenceId /\ (r[2] = userId \/ userTable[r] # NoRow)
                            THEN StoredForm(preferenceValue) ELSE userTable[r]]
                   /\ last' = [req EXCEPT !.val = preferenceValue]
                \/ /\ last' = [req EXCEPT !.dbErr = "user",
                        !.err = ApiError(ErrorExec, "error in setting the preference value")]
                   /\ UNCHANGED userTable
    /\ ops' = ops + 1
    /\ UNCHANGED <<preferences, preferenceMap, loaded, orgTable, orgAck>>

\* dbErr: db.Exec fails, and then no row is written
UpdateUserPreference(preferenceId, preferenceValue, userId) ==
    /\ loaded # "none"
    /\ ops < MaxOps
    /\ LET e == UpdateUserPreferenceErr(preferenceId, preferenceValue)
           req == [NoLast EXCEPT !.op = "UpdateUserPreference", !.key = preferenceId,
                                 !.user = userId, !.arg = preferenceValue]
       IN  IF e # NoError
           THEN /\ last' = [req EXCEPT !.err = e]
                /\ UNCHANGED userTable
           ELSE \/ /\ userTable' = [userTable EXCEPT ![<<preferenceId, userId>>] =
                                       StoredForm(preferenceValue)]
                   /\ last' = [req EXCEPT !.val = preferenceValue]
                \/ /\ last' = [req EXCEPT !.dbErr = "user",
                        !.err = ApiError(ErrorExec, "error in setting the preference value")]
                   /\ UNCHANGED userTable
    /\ ops' = ops + 1
    /\ UNCHANGED <<preferences, preferenceMap, loaded, orgTable, orgAck>>

\* the value GetAllUserPreferences gives a definition enabled at user scope
UserListValue(preference, orgId, userId) ==
    LET orgRow == orgTable[<<preference.Key, orgId>>]
        userRow == userTable[<<preference.Key, userId>>]
        afterOrg == IF IsEnabledForScope(preference, OrgAllowedScope) /\ orgRow # NoRow
                    THEN orgRow ELSE preference.DefaultValue
    IN  SanitizeValue(preference, IF userRow # NoRow THEN userRow ELSE afterOrg)

\* the rows GetAllUserPreferences returns when both db.Select succeed
GetAllUserPreferencesRows(orgId, userId) ==
    LET EnabledForUser(preference) == IsEnabledForScope(preference, UserAllowedScope)
        enabled == SelectSeq(preferences, EnabledForUser)
    IN  [i \in 1..Len(enabled) |->
            PreferenceWithValue(enabled[i], UserListValue(enabled[i], orgId, userId))]

GetAllUserPreferences(orgId, userId) ==
    /\ loaded # "none"
    /\ ops < MaxOps
    /\ \E dbErr \in DbErrs :
       last' = IF dbErr = "org"
               THEN [NoLast EXCEPT !.op = "GetAllUserPreferences", !.org = orgId,
                        !.user = userId, !.dbErr = dbErr,
                        !.err = ApiError(ErrorExec, "error in getting all org preference values")]
               ELSE IF dbErr = "user"
               THEN [NoLast EXCEPT !.op = "GetAllUserPreferences", !.org = orgId,
                        !.user = userId, !.dbErr = dbErr,
                        !.err = ApiError(ErrorExec, "error in getting all user preference values")]
               ELSE [NoLast EXCEPT !.op = "GetAllUserPreferences", !.org = orgId,
                        !.user = userId, !.rows = GetAllUserPreferencesRows(orgId, userId)]
    /\ ops' = ops + 1
    /\ UNCHANGED <<preferences, preferenceMap, loaded, orgTable, userTable, orgAck>>

----------------------------------------------------------------------------

Next ==
    \/ \E file \in DefinitionFiles, fileErr \in BOOLEAN : InitDB(file, fileErr)
    \/ \E k \in PreferenceIds, o \in Orgs : GetOrgPreference(k, o)
    \/ \E k \in PreferenceIds, v \in CandidateValues, o \in Orgs :
            UpdateOrgPreference(k, v, o)
    \/ \E o \in Orgs : GetAllOrgPreferences(o)
    \/ \E k \in PreferenceIds, o \in Orgs, u \in Users : GetUserPreference(k, o, u)
    \/ \E k \in PreferenceIds, v \in CandidateValues, u \in Users :
            UpdateUserPreference(k, v, u)
    \/ \E o \in Orgs, u \in Users : GetAllUserPreferences(o, u)

Spec == Init /\ [][Next]_vars

\* the service started on a database that has no preference row yet
InitFresh == Init /\ orgTable = EmptyOrgTable /\ userTable = EmptyUserTable

SpecFresh == InitFresh /\ [][Next]_vars

----------------------------------------------------------------------------
(* Properties *)

Updates == {"UpdateOrgPreference", "UpdateUserPreference"}

\* the scope an operation works at
ScopeOfOp(op) ==
    IF op \in {"GetOrgPreference", "UpdateOrgPreference", "GetAllOrgPreferences"}
    THEN OrgAllowedScope ELSE UserAllowedScope

ScopesOf(p) == {p.AllowedScopes[i] : i \in 1..Len(p.AllowedScopes)}

\* the last request named a key of the registry that is enabled at the request's scope
LastKeyEnabled ==
    /\ last.key \in DOMAIN preferenceMap
    /\ ScopeOfOp(last.op) \in ScopesOf(preferenceMap[last.key])

LastOrgRow == orgTable[<<last.key, last.org>>]

LastUserRow == userTable[<<last.key, last.user>>]

\* C1: GetUserPreference on a definition enabled at user scope returns Sanitize(x), x
\* being the user row if there is one, else the org row if org scope is enabled and
\* there is one, else the default; an org row of a definition not enabled at org
\* scope is ignored.
C1_UserOverOrgOverDefault ==
    (last.op = "GetUserPreference" /\ LastKeyEnabled /\ last.dbErr = "none")
    => LET p == preferenceMap[last.key]
           x == IF LastUserRow # NoRow THEN LastUserRow
                ELSE IF OrgAllowedScope \in ScopesOf(p) /\ LastOrgRow # NoRow
                THEN LastOrgRow
                ELSE p.DefaultValue
       IN  last.err = NoError /\ last.val = SanitizeValue(p, x)

\* a get with both rows stored, whose values differ, answered with the user's
C1_Witness ==
    /\ last.op = "GetUserPreference" /\ LastKeyEnabled /\ last.err = NoError
    /\ OrgAllowedScope \in ScopesOf(preferenceMap[last.key])
    /\ LastUserRow # NoRow /\ LastOrgRow # NoRow
    /\ SanitizeValue(preferenceMap[last.key], LastUserRow)
         # SanitizeValue(preferenceMap[last.key], LastOrgRow)
    /\ last.val = SanitizeValue(preferenceMap[last.key], LastUserRow)

\* C2: with no org row and no user row stored, every getter and every list returns
\* exactly the definition's default value, for every value type.
C2_NoRowsGiveDefault ==
    loaded = "ok" =>
    /\ (last.op = "GetOrgPreference" /\ last.err = NoError /\ LastOrgRow = NoRow)
       => last.val = preferenceMap[last.key].DefaultValue
    /\ (last.op = "GetUserPreference" /\ last.err = NoError
        /\ LastOrgRow = NoRow /\ LastUserRow = NoRow)
       => last.val = preferenceMap[last.key].DefaultValue
    /\ (last.op = "GetAllOrgPreferences" /\ last.err = NoError)
       => \A i \in 1..Len(last.rows) :
             orgTable[<<last.rows[i].Key, last.org>>] = NoRow
             => last.rows[i].Value = last.rows[i].DefaultValue
    /\ (last.op = "GetAllUserPreferences" /\ last.err = NoError)
       => \A i \in 1..Len(last.rows) :
             (/\ orgTable[<<last.rows[i].Key, last.org>>] = NoRow
              /\ userTable[<<last.rows[i].Key, last.user>>] = NoRow)
             => last.rows[i].Value = last.rows[i].DefaultValue

\* C3: for a boolean preference, sanitizing the value a get has sanitized changes
\* nothing: SanitizeValue(SanitizeValue(v)) = SanitizeValue(v).
C3_SanitizeIdempotent ==
    (/\ loaded = "ok"
     /\ last.op \in {"GetOrgPreference", "GetUserPreference"} /\ last.err = NoError
     /\ (last.op = "GetOrgPreference" => LastOrgRow # NoRow)
     /\ preferenceMap[last.key].ValueType = PreferenceValueTypeBoolean)
    => SanitizeValue(preferenceMap[last.key], last.val) = last.val

IsIntegral(v) == v.t = "int64" \/ (v.t = "float64" /\ v.f = 0)

RangeError == ApiError(ErrorBadData, "not in the range specified")

\* C5: for an integer definition with discrete mode off, an update whose candidate
\* (an int64 or an integral float64) is below range.min or above range.max fails
\* with the range error and leaves both tables unchanged; min and max pass validation.
C5_OutOfRangeRejectedNoWrite ==
    [][ (/\ ops' = ops + 1
         /\ last'.op \in Updates
         /\ last'.key \in DOMAIN preferenceMap
         /\ ScopeOfOp(last'.op) \in ScopesOf(preferenceMap[last'.key])
         /\ preferenceMap[last'.key].ValueType = PreferenceValueTypeInteger
         /\ ~preferenceMap[last'.key].IsDescreteValues
         /\ IsIntegral(last'.arg))
        => LET range == preferenceMap[last'.key].Range
               val == last'.arg.n
           IN  IF val < range.Min \/ val > range.Max
               THEN /\ last'.err = RangeError
                    /\ orgTable' = orgTable /\ userTable' = userTable
               ELSE last'.err.Typ # ErrorBadData ]_vars

\* an integral float above range.max was rejected with the range error
C5_Witness ==
    /\ last.op \in Updates /\ LastKeyEnabled
    /\ preferenceMap[last.key].ValueType = PreferenceValueTypeInteger
    /\ ~preferenceMap[last.key].IsDescreteValues
    /\ last.arg.t = "float64" /\ last.arg.n > preferenceMap[last.key].Range.Max
    /\ last.err = RangeError

\* equal by value: two numbers are equal when they are the same number
ValueEq(a, b) ==
    IF a.t \in {"int64", "float64"} /\ b.t \in {"int64", "float64"}
    THEN a.n = b.n /\ a.f = b.f
    ELSE a = b

GoTypeOf(valueType) ==
    CASE valueType = PreferenceValueTypeInteger -> "int64"
      [] valueType = PreferenceValueTypeFloat -> "float64"
      [] valueType = PreferenceValueTypeString -> "string"
      [] valueType = PreferenceValueTypeBoolean -> "bool"

\* the candidate passes the type check of the definition
TypeConformant(p, v) ==
    IF p.ValueType = PreferenceValueTypeInteger THEN IsIntegral(v)
    ELSE v.t = GoTypeOf(p.ValueType)

DomainError == ApiError(ErrorBadData, "not in the list of allowedValues")

TypeError == ApiError(ErrorBadData, "not of expected type")

\* C6: for a definition with discrete mode on and a non-empty allowed set, an update
\* with a type-conformant candidate passes validation if and only if the candidate
\* equals one of the allowed values by value; otherwise it fails with the domain
\* error and both tables are unchanged.
C6_DiscreteAcceptedIffAllowed ==
    [][ (/\ loaded = "ok"
         /\ ops' = ops + 1
         /\ last'.op \in Updates
         /\ last'.key \in DOMAIN preferenceMap
         /\ ScopeOfOp(last'.op) \in ScopesOf(preferenceMap[last'.key])
         /\ preferenceMap[last'.key].IsDescreteValues
         /\ ~preferenceMap[last'.key].AllowedValues.isNil
         /\ Len(preferenceMap[last'.key].AllowedValues.elems) > 0
         /\ TypeConformant(preferenceMap[last'.key], last'.arg))
        => LET allowed == preferenceMap[last'.key].AllowedValues.elems
           IN  IF \E i \in 1..Len(allowed) : ValueEq(allowed[i], last'.arg)
               THEN last'.err.Typ # ErrorBadData
               ELSE /\ last'.err = DomainError
                    /\ orgTable' = orgTable /\ userTable' = userTable ]_vars

\* C7: an update whose candidate has another runtime type than the definition's
\* value type fails with the type-mismatch error, except that for an integer
\* definition a float64 with no fractional part is taken as that integer by the
\* range check; a float64 with a fractional part is a type mismatch.
C7_TypeMismatchRejected ==
    (last.op \in Updates /\ LastKeyEnabled)
    => LET p == preferenceMap[last.key]
           v == last.arg
           integralFloat == p.ValueType = PreferenceValueTypeInteger
                            /\ v.t = "float64" /\ v.f = 0
       IN  /\ (v.t # GoTypeOf(p.ValueType) /\ ~integralFloat) => last.err = TypeError
           /\ integralFloat => last.err # TypeError
           /\ (integralFloat /\ ~p.IsDescreteValues)
              => IF v.n < p.Range.Min \/ v.n > p.Range.Max
                 THEN last.err = RangeError
                 ELSE last.err.Typ # ErrorBadData

\* an integral float within the range was accepted for an integer definition
C7_Witness ==
    /\ last.op \in Updates /\ LastKeyEnabled
    /\ preferenceMap[last.key].ValueType = PreferenceValueTypeInteger
    /\ ~preferenceMap[last.key].IsDescreteValues
    /\ last.arg.t = "float64" /\ last.arg.f = 0
    /\ last.err = NoError
    /\ (last.op = "UpdateOrgPreference" => LastOrgRow = last.arg)
    /\ (last.op = "UpdateUserPreference" => LastUserRow = last.arg)

\* C8: an update at a scope the definition does not allow fails with the forbidden
\* error and leaves both tables unchanged, whether or not the candidate is valid.
C8_ForbiddenScopeNoWrite ==
    [][ (/\ ops' = ops + 1
         /\ last'.op \in Updates
         /\ last'.key \in DOMAIN preferenceMap
         /\ ScopeOfOp(last'.op) \notin ScopesOf(preferenceMap[last'.key]))
        => /\ last'.err.Typ = ErrorForbidden
           /\ orgTable' = orgTable /\ userTable' = userTable ]_vars

\* a valid value for an org-only definition was refused at user scope
C8_Witness ==
    /\ last.op = "UpdateUserPreference"
    /\ last.key \in DOMAIN preferenceMap
    /\ ScopesOf(preferenceMap[last.key]) = {OrgAllowedScope}
    /\ IsValidValue(preferenceMap[last.key], last.arg) = NoError
    /\ last.err = NotEnabledAtUser

\* positions in preferences of the definitions enabled at a scope
EnabledAt(scope) ==
    {j \in 1..Len(preferences) : scope \in ScopesOf(preferences[j])}

\* position of the i-th definition enabled at a scope
NthEnabledAt(scope, i) ==
    CHOOSE j \in EnabledAt(scope) : Cardinality({m \in EnabledAt(scope) : m <= j}) = i

\* C9: a list returns one row per definition enabled at its scope, in the order of
\* the definitions, and no row for a definition not enabled at the scope, whatever
\* rows the tables hold.
C9_ListOneRowPerEnabledDefinition ==
    (last.op \in {"GetAllOrgPreferences", "GetAllUserPreferences"} /\ last.dbErr = "none")
    => /\ last.err = NoError
       /\ Len(last.rows) = Cardinality(EnabledAt(ScopeOfOp(last.op)))
       /\ \A i \in 1..Len(last.rows) :
             /\ last.rows[i].Key = preferences[NthEnabledAt(ScopeOfOp(last.op), i)].Key
             /\ ScopeOfOp(last.op) \in ScopesOf(last.rows[i])

\* a list at org scope leaves out a definition not enabled there that has an org row
C9_Witness ==
    /\ loaded = "ok"
    /\ last.op = "GetAllOrgPreferences" /\ last.err = NoError
    /\ \E k \in DOMAIN preferenceMap :
          /\ OrgAllowedScope \notin ScopesOf(preferenceMap[k])
          /\ orgTable[<<k, last.org>>] # NoRow
          /\ \A i \in 1..Len(last.rows) : last.rows[i].Key # k
    /\ Len(last.rows) > 0

\* C10: the value of every row of a list equals the value the single-key getter of
\* the same scope returns for that key and the same org and user.
C10_ListAgreesWithGetter ==
    loaded = "ok" =>
    /\ (last.op = "GetAllOrgPreferences" /\ last.err = NoError)
       => \A i \in 1..Len(last.rows) :
             last.rows[i].Value
               = GetOrgPreferenceKV(last.rows[i].Key, last.org, "none").val
    /\ (last.op = "GetAllUserPreferences" /\ last.err = NoError)
       => \A i \in 1..Len(last.rows) :
             last.rows[i].Value
               = GetUserPreferenceKV(last.rows[i].Key, last.org, last.user, "none").val

\* the keys of a sequence of definitions
KeysOf(defs) == {defs[i].Key : i \in 1..Len(defs)}

HasDuplicateKey(defs) ==
    \E i, j \in 1..Len(defs) : i < j /\ defs[i].Key = defs[j].Key

SingleKeyOps ==
    {"GetOrgPreference", "UpdateOrgPreference", "GetUserPreference", "UpdateUserPreference"}

\* C11: InitDB of a file it could read fails with the duplicate-key error if and only
\* if two definitions of the file have the same key; after a successful load every
\* key of the file maps to its own definition, and every get and update of a key the
\* file does not have fails with the bad-data error "no such preferenceId exists".
C11_LoadFailsIffDuplicateKey ==
    /\ loaded \in {"ok", "duplicate preference key"}
       => (loaded = "duplicate preference key" <=> HasDuplicateKey(preferences))
    /\ loaded = "ok"
       => /\ DOMAIN preferenceMap = KeysOf(preferences)
          /\ \A i \in 1..Len(preferences) :
                preferenceMap[preferences[i].Key] = preferences[i]
          /\ (last.op \in SingleKeyOps /\ last.key \notin KeysOf(preferences))
             => (last.err = NoSuchPreference /\ last.err.Typ = ErrorBadData)

\* after a successful load, an update of a key the file does not have was refused
C11_Witness ==
    /\ loaded = "ok" /\ Len(preferences) > 0
    /\ last.op = "UpdateUserPreference"
    /\ last.key \notin KeysOf(preferences)
    /\ last.err = NoSuchPreference

ListOps == {"GetAllOrgPreferences", "GetAllUserPreferences"}

\* C12: after InitDB has failed with the duplicate-key error no request resolves a
\* preference key: no get and no update succeeds, and every list returns no row.
C12_BrokenSchemaNeverServed ==
    loaded = "duplicate preference key"
    => /\ last.op \in SingleKeyOps => last.err # NoError
       /\ last.op \in ListOps => last.rows = <<>>

\* C13: the allowed-values check is made only when discrete mode is on and the
\* allowed-value list is not empty: an update of a discrete definition whose list is
\* empty passes validation for every type-conformant candidate, and an update of a
\* discrete integer definition never fails with the range error.
C13_DiscreteCheckOnlyIfNonEmpty ==
    (/\ loaded = "ok"
     /\ last.op \in Updates /\ LastKeyEnabled
     /\ preferenceMap[last.key].IsDescreteValues
     /\ TypeConformant(preferenceMap[last.key], last.arg))
    => /\ Len(preferenceMap[last.key].AllowedValues.elems) = 0
          => last.err.Typ # ErrorBadData
       /\ preferenceMap[last.key].ValueType = PreferenceValueTypeInteger
          => last.err # RangeError

\* the candidates that pass the validation of a definition
ValidValues(p) == {v \in CandidateValues : IsValidValue(p, v) = NoError}

C15_UpdateChangesOnlyItsRow ==
    [][ /\ (ops' = ops + 1 /\ last'.op = "UpdateUserPreference" /\ last'.err = NoError)
           => /\ orgTable' = orgTable
              /\ \A r \in DOMAIN userTable :
                    r # <<last'.key, last'.user>> => userTable'[r] = userTable[r]
              /\ \A k \in PreferenceIds, o \in Orgs, u \in Users \ {last'.user} :
                    GetUserPreferenceKV(k, o, u, "none")'
                      = GetUserPreferenceKV(k, o, u, "none")
        /\ (ops' = ops + 1 /\ last'.op = "UpdateOrgPreference" /\ last'.err = NoError)
           => /\ userTable' = userTable
              /\ \A r \in DOMAIN orgTable :
                    r # <<last'.key, last'.org>> => orgTable'[r] = orgTable[r]
              /\ \A k \in PreferenceIds, o \in Orgs, u \in Users :
                    userTable[<<k, u>>] # NoRow
                    => GetUserPreferenceKV(k, o, u, "none")'
                         = GetUserPreferenceKV(k, o, u, "none") ]_vars

\* a user's update went through while another user holds another value for the key
C15_Witness ==
    /\ last.op = "UpdateUserPreference" /\ last.err = NoError
    /\ LastUserRow = StoredForm(last.arg)
    /\ \E u \in Users \ {last.user} :
          /\ userTable[<<last.key, u>>] # NoRow
          /\ userTable[<<last.key, u>>] # LastUserRow

====
